---------------------------- MODULE Spec2Model ----------------------------
(***************************************************************************)
(* A model of multilspy's TypeScriptLanguageServer                        *)
(* (src/multilspy/language_servers/typescript_language_server/            *)
(*  typescript_language_server.py):                                        *)
(*                                                                         *)
(*   - __init__ and setup_runtime_dependencies (specification SpecSetup), *)
(*   - _get_initialize_params (specification SpecParams),                 *)
(*   - the start_server context manager, its handlers and the caller's    *)
(*     `async with lsp.start_server():` scope (specifications Spec and    *)
(*     LiveSpec).                                                          *)
(*                                                                         *)
(* A Python string is modelled as a sequence of tokens; a token is either *)
(* the separator "/" or a run of characters that holds no "/"; adjacent   *)
(* tokens are adjacent characters of the string.                          *)
(***************************************************************************)
EXTENDS Integers, Sequences, FiniteSets, TLC

VARIABLES
    \* ---- _get_initialize_params
    template,                 \* the content of initialize_params.json
    repository_root_path,     \* self.repository_root_path
    process_id,               \* os.getpid()
    params_result,            \* outcome of the last _get_initialize_params call
    \* ---- start_server
    pc,                       \* position of the start_server generator / its caller
    request_handlers,         \* methods registered with server.on_request
    notification_handlers,    \* methods registered with server.on_notification
    process,                  \* the language server process: none, running, stopped
    init_response,            \* the capabilities of the initialize response
    asserts_passed,           \* how many of the capability assertions have passed
    initialized_sent,         \* the `initialized` notification was sent
    completions_available,    \* asyncio.Event
    server_ready,             \* asyncio.Event
    initialize_searcher_command_available,  \* asyncio.Event
    yielded,                  \* the session was yielded to the caller
    exit_kind,                \* how the caller's scope body ended
    shutdown_calls,           \* calls of server.shutdown()
    shutdown_done,            \* server.shutdown() has returned
    stop_calls,               \* calls of server.stop()
    server_acks,              \* whether the server answers the shutdown request
    last_msg,                 \* the last server-initiated message handled
    error,                    \* the exception start_server ended with
    \* ---- __init__ / setup_runtime_dependencies
    ipc,                      \* position inside __init__
    platform_id,              \* PlatformUtils.get_platform_id()
    n_deps,                   \* len(runtime_dependencies)
    in_site_packages,         \* 'site-packages/' occurs in the module path
    node_found,               \* shutil.which('node')
    npm_found,                \* shutil.which('npm')
    dir_exists,               \* os.path.exists(tsserver_ls_dir)
    exe_exists,               \* os.path.exists(tsserver_executable)
    dep_index,                \* the install loop's position
    found_dir_absent,         \* this call saw the directory absent
    created_dir,              \* this call created the directory
    installs_run,             \* install commands this call has run
    setup_result,             \* none, returned, raised
    setup_error,              \* the exception setup_runtime_dependencies raised
    failed_check,             \* the check that raised
    ts_lsp_executable_path,   \* the value setup_runtime_dependencies returned
    session_constructed,      \* super().__init__ has run for this call
    install_failed_before,    \* an earlier call failed in its install step
    calls                     \* number of __init__ calls so far

paramVars == <<template, repository_root_path, process_id, params_result>>

serverVars ==
    <<pc, request_handlers, notification_handlers, process, init_response,
      asserts_passed, initialized_sent, completions_available, server_ready,
      initialize_searcher_command_available, yielded, exit_kind,
      shutdown_calls, shutdown_done, stop_calls, server_acks, last_msg, error>>

setupVars ==
    <<ipc, platform_id, n_deps, in_site_packages, node_found, npm_found,
      dir_exists, exe_exists, dep_index, found_dir_absent, created_dir,
      installs_run, setup_result, setup_error, failed_check,
      ts_lsp_executable_path, session_constructed, install_failed_before,
      calls>>

vars == <<paramVars, serverVars, setupVars>>

---------------------------------------------------------------------------
(* Bounds of the model.                                                    *)

MaxPathLen == 4     \* tokens in a repository root path
MaxDeps == 2        \* entries of runtimeDependencies
MaxCalls == 3       \* successive __init__ calls
MaxRegistrations == 2   \* registrations in one client/registerCapability request

---------------------------------------------------------------------------
(* Strings, paths and URIs.                                                *)

Sep == "/"

\* The tokens repository root paths are built from.
PathTokens == {Sep, "a", "b c", "$name"}

RECURSIVE SeqsUpTo(_, _)
SeqsUpTo(S, n) ==
    IF n = 0 THEN {<<>>}
    ELSE LET shorter == SeqsUpTo(S, n - 1)
         IN  shorter \cup {Append(s, t) : s \in {x \in shorter : Len(x) = n - 1}, t \in S}

\* The repository root paths of the model: the non-empty strings within the bound.
Paths == SeqsUpTo(PathTokens, MaxPathLen) \ {<<>>}

\* urllib.parse.quote_from_bytes as pathlib's as_uri applies it: letters,
\* digits and "_.-~/" are kept, every other byte becomes %XX.
Quote(t) ==
    CASE t = "b c"       -> "b%20c"
      [] t = "$name"     -> "%24name"
      [] t = "$rootPath" -> "%24rootPath"
      [] t = "$rootUri"  -> "%24rootUri"
      [] t = "$uri"      -> "%24uri"
      [] OTHER           -> t

RECURSIVE LeadingSeps(_)
LeadingSeps(s) ==
    IF s # <<>> /\ Head(s) = Sep THEN 1 + LeadingSeps(Tail(s)) ELSE 0

\* Whether only separators are left.
RECURSIVE OnlySeps(_)
OnlySeps(s) ==
    s = <<>> \/ (Head(s) = Sep /\ OnlySeps(Tail(s)))

\* The part of a path after its root: a run of separators counts as one and
\* trailing separators are dropped.
RECURSIVE Collapse(_)
Collapse(s) ==
    IF OnlySeps(s) THEN <<>>
    ELSE IF Head(s) = Sep /\ Head(Tail(s)) = Sep THEN Collapse(Tail(s))
    ELSE <<Head(s)>> \o Collapse(Tail(s))

\* str(pathlib.PurePosixPath(s)): repeated and trailing separators are
\* dropped, exactly two leading separators are kept, the empty path is ".".
PosixPath(s) ==
    LET n == LeadingSeps(s)
        root == IF n = 2 THEN <<Sep, Sep>> ELSE IF n >= 1 THEN <<Sep>> ELSE <<>>
        p == root \o Collapse(SubSeq(s, n + 1, Len(s)))
    IN  IF p = <<>> THEN <<".">> ELSE p

is_absolute(s) == s # <<>> /\ Head(s) = Sep

\* pathlib.Path(s).as_uri() of an absolute path.
as_uri(s) ==
    LET p == PosixPath(s)
    IN  <<"file://">> \o [i \in 1..Len(p) |-> Quote(p[i])]

RECURSIVE basename(_)
\* os.path.basename(s): what follows the last separator.
basename(s) ==
    IF s = <<>> THEN <<>>
    ELSE IF s[Len(s)] = Sep THEN <<>>
    ELSE Append(basename(SubSeq(s, 1, Len(s) - 1)), s[Len(s)])

---------------------------------------------------------------------------
(* _get_initialize_params                                                  *)

PH_rootPath == <<"$rootPath">>
PH_rootUri  == <<"$rootUri">>
PH_uri      == <<"$uri">>
PH_name     == <<"$name">>

Placeholders == {PH_rootPath, PH_rootUri, PH_uri, PH_name}

\* A value a template field may hold instead of its placeholder.
Literal == <<"x">>

\* initialize_params.json as the code reads it: the four templated fields,
\* the documentation key, and the process id the file carries.
Templates ==
    [has_description : BOOLEAN,
     processId : {0},
     rootPath : {PH_rootPath, Literal},
     rootUri : {PH_rootUri, Literal},
     workspaceFolders_uri : {PH_uri, Literal},
     workspaceFolders_name : {PH_name, Literal}]

\* The template the code's assertions expect.
GoodTemplate ==
    [has_description |-> TRUE, processId |-> 0, rootPath |-> PH_rootPath,
     rootUri |-> PH_rootUri, workspaceFolders_uri |-> PH_uri, workspaceFolders_name |-> PH_name]

ProcessIds == {4711}

NoResult == [status |-> "none", error |-> "none", d |-> GoodTemplate]

Raised(e, d) == [status |-> "raised", error |-> e, d |-> d]

Running(d) == [status |-> "running", error |-> "none", d |-> d]

\* A statement runs only if no earlier statement has raised.
Then(st, next) == IF st.status = "running" THEN next ELSE st

\* del d["_description"]
del_description(st) ==
    Then(st, IF st.d.has_description
             THEN Running([st.d EXCEPT !.has_description = FALSE])
             ELSE Raised("KeyError", st.d))

\* d["processId"] = os.getpid()
set_processId(st, pid) ==
    Then(st, Running([st.d EXCEPT !.processId = pid]))

\* assert d["rootPath"] == "$rootPath"; d["rootPath"] = repository_absolute_path
set_rootPath(st, repository_absolute_path) ==
    Then(st, IF st.d.rootPath = PH_rootPath
             THEN Running([st.d EXCEPT !.rootPath = repository_absolute_path])
             ELSE Raised("AssertionError", st.d))

\* assert d["rootUri"] == "$rootUri"
\* d["rootUri"] = pathlib.Path(repository_absolute_path).as_uri()
set_rootUri(st, repository_absolute_path) ==
    Then(st, IF st.d.rootUri # PH_rootUri THEN Raised("AssertionError", st.d)
             ELSE IF ~is_absolute(repository_absolute_path)
             THEN Raised("ValueError", st.d)
             ELSE Running([st.d EXCEPT !.rootUri = as_uri(repository_absolute_path)]))

\* assert d["workspaceFolders"][0]["uri"] == "$uri"
\* d["workspaceFolders"][0]["uri"] = pathlib.Path(repository_absolute_path).as_uri()
set_workspaceFolder_uri(st, repository_absolute_path) ==
    Then(st, IF st.d.workspaceFolders_uri # PH_uri THEN Raised("AssertionError", st.d)
             ELSE IF ~is_absolute(repository_absolute_path)
             THEN Raised("ValueError", st.d)
             ELSE Running([st.d EXCEPT !.workspaceFolders_uri = as_uri(repository_absolute_path)]))

\* set_workspaceFolder_name without its assertion on the placeholder.
set_workspaceFolder_name_Unchecked(st, repository_absolute_path) ==
    Then(st, Running([st.d EXCEPT !.workspaceFolders_name = basename(repository_absolute_path)]))

\* assert d["workspaceFolders"][0]["name"] == "$name"
\* d["workspaceFolders"][0]["name"] = os.path.basename(repository_absolute_path)
set_workspaceFolder_name(st, repository_absolute_path) ==
    Then(st, IF st.d.workspaceFolders_name = PH_name
             THEN Running([st.d EXCEPT !.workspaceFolders_name = basename(repository_absolute_path)])
             ELSE Raised("AssertionError", st.d))

\* _get_initialize_params: its statements in order; `return d` at the end.
get_initialize_params(tmpl, repository_absolute_path, pid) ==
    LET st == set_workspaceFolder_name(
                set_workspaceFolder_uri(
                  set_rootUri(
                    set_rootPath(
                      set_processId(del_description(Running(tmpl)), pid),
                      repository_absolute_path),
                    repository_absolute_path),
                  repository_absolute_path),
                repository_absolute_path)
    IN  IF st.status = "running" THEN [st EXCEPT !.status = "returned"] ELSE st

---------------------------------------------------------------------------
(* start_server: constants                                                 *)

REGISTER_CAPABILITY     == "client/registerCapability"
LOG_MESSAGE             == "window/logMessage"
EXECUTE_CLIENT_COMMAND  == "workspace/executeClientCommand"
PROGRESS                == "$/progress"
PUBLISH_DIAGNOSTICS     == "textDocument/publishDiagnostics"
EXECUTE_COMMAND         == "workspace/executeCommand"
DID_CHANGE_WATCHED      == "workspace/didChangeWatchedFiles"

\* The completionProvider the third capability assertion compares with.
ExpectedCompletionProvider ==
    [present |-> TRUE,
     triggerCharacters |-> <<".", "\"", "'", "/", "@", "<">>,
     resolveProvider |-> TRUE,
     extra |-> FALSE]

\* completionProvider values a server may answer with: absent, the expected
\* one, other trigger characters, another resolveProvider, a further key.
CompletionProviders ==
    { [present |-> FALSE, triggerCharacters |-> <<>>, resolveProvider |-> FALSE,
       extra |-> FALSE],
      ExpectedCompletionProvider,
      [ExpectedCompletionProvider EXCEPT !.triggerCharacters = <<".">>],
      [ExpectedCompletionProvider EXCEPT
          !.triggerCharacters = <<"\"", ".", "'", "/", "@", "<">>],
      [ExpectedCompletionProvider EXCEPT !.resolveProvider = FALSE],
      [ExpectedCompletionProvider EXCEPT !.extra = TRUE] }

\* init_response["capabilities"] of an initialize response.
CapabilityDocs ==
    [textDocumentSync : {1, 2}, completionProvider : CompletionProviders]

NoResponse ==
    [textDocumentSync |-> 0,
     completionProvider |->
        [present |-> FALSE, triggerCharacters |-> <<>>,
         resolveProvider |-> FALSE, extra |-> FALSE]]

\* params of a client/registerCapability request: with or without the
\* "registrations" key, and the methods of its registrations.
RegistrationParams ==
    [has_registrations : BOOLEAN,
     registrations : SeqsUpTo({EXECUTE_COMMAND, DID_CHANGE_WATCHED}, MaxRegistrations)]

NoParams == [has_registrations |-> FALSE, registrations |-> <<>>]

NoMsg == [method |-> "none", params |-> NoParams]

\* The server-initiated messages the model delivers.
ServerMessages ==
    [method : {REGISTER_CAPABILITY}, params : RegistrationParams]
    \cup [method : {LOG_MESSAGE, EXECUTE_CLIENT_COMMAND, PROGRESS, PUBLISH_DIAGNOSTICS},
          params : {NoParams}]

handlerVars == <<request_handlers, notification_handlers>>
eventVars ==
    <<completions_available, server_ready, initialize_searcher_command_available>>
teardownVars == <<shutdown_calls, shutdown_done, stop_calls>>

\* An exception leaves the generator: nothing after the raising statement runs.
Raise(e) == pc' = "raised" /\ error' = e

---------------------------------------------------------------------------
(* start_server: handlers                                                  *)

\* register_capability_handler: the new value of
\* initialize_searcher_command_available.
register_capability_handler(params, flag) ==
    IF ~params.has_registrations THEN flag
    ELSE flag \/ \E i \in 1..Len(params.registrations) :
                    params.registrations[i] = EXECUTE_COMMAND

\* The server sends a request or notification while its process runs, and the
\* handler registered for the method is run.
ServerInitiated ==
    /\ process = "running"
    /\ \E msg \in ServerMessages :
        /\ msg.method \in request_handlers \cup notification_handlers
        /\ last_msg' = msg
        /\ initialize_searcher_command_available' =
              IF msg.method = REGISTER_CAPABILITY
              THEN register_capability_handler(
                      msg.params, initialize_searcher_command_available)
              ELSE initialize_searcher_command_available
    /\ UNCHANGED <<pc, handlerVars, process, init_response, asserts_passed,
                   initialized_sent, completions_available, server_ready,
                   yielded, exit_kind, teardownVars, server_acks, error>>
    /\ UNCHANGED <<paramVars, setupVars>>

---------------------------------------------------------------------------
(* start_server: the generator, statement by statement                     *)

\* What a registration step leaves alone.
RegistrationFrame ==
    UNCHANGED <<process, init_response, asserts_passed, initialized_sent,
                eventVars, yielded, exit_kind, teardownVars, server_acks,
                last_msg, error, paramVars, setupVars>>

on_request_registerCapability ==
    /\ pc = "on_request_registerCapability"
    /\ request_handlers' = request_handlers \cup {REGISTER_CAPABILITY}
    /\ pc' = "on_notification_logMessage"
    /\ UNCHANGED notification_handlers
    /\ RegistrationFrame

on_notification_logMessage ==
    /\ pc = "on_notification_logMessage"
    /\ notification_handlers' = notification_handlers \cup {LOG_MESSAGE}
    /\ pc' = "on_request_executeClientCommand"
    /\ UNCHANGED request_handlers
    /\ RegistrationFrame

on_request_executeClientCommand ==
    /\ pc = "on_request_executeClientCommand"
    /\ request_handlers' = request_handlers \cup {EXECUTE_CLIENT_COMMAND}
    /\ pc' = "on_notification_progress"
    /\ UNCHANGED notification_handlers
    /\ RegistrationFrame

on_notification_progress ==
    /\ pc = "on_notification_progress"
    /\ notification_handlers' = notification_handlers \cup {PROGRESS}
    /\ pc' = "on_notification_publishDiagnostics"
    /\ UNCHANGED request_handlers
    /\ RegistrationFrame

\* start_server without its last registration.
on_notification_publishDiagnostics_Skipped ==
    /\ pc = "on_notification_publishDiagnostics"
    /\ pc' = "enter_super"
    /\ UNCHANGED handlerVars
    /\ RegistrationFrame

on_notification_publishDiagnostics ==
    /\ pc = "on_notification_publishDiagnostics"
    /\ notification_handlers' = notification_handlers \cup {PUBLISH_DIAGNOSTICS}
    /\ pc' = "enter_super"
    /\ UNCHANGED request_handlers
    /\ RegistrationFrame

\* async with super().start_server():
enter_super ==
    /\ pc = "enter_super"
    /\ pc' = "server_start"
    /\ UNCHANGED <<handlerVars, process, init_response, asserts_passed,
                   initialized_sent, eventVars, yielded, exit_kind,
                   teardownVars, server_acks, last_msg, error>>
    /\ UNCHANGED <<paramVars, setupVars>>

\* await self.server.start()
server_start ==
    /\ pc = "server_start"
    /\ process' = "running"
    /\ pc' = "get_initialize_params"
    /\ UNCHANGED <<handlerVars, init_response, asserts_passed,
                   initialized_sent, eventVars, yielded, exit_kind,
                   teardownVars, server_acks, last_msg, error>>
    /\ UNCHANGED <<paramVars, setupVars>>

\* initialize_params = self._get_initialize_params(self.repository_root_path)
call_get_initialize_params ==
    /\ pc = "get_initialize_params"
    /\ LET r == get_initialize_params(template, repository_root_path, process_id)
       IN  /\ params_result' = r
           /\ IF r.status = "returned"
              THEN pc' = "send_initialize" /\ UNCHANGED error
              ELSE Raise(r.error)
    /\ UNCHANGED <<handlerVars, process, init_response, asserts_passed,
                   initialized_sent, eventVars, yielded, exit_kind,
                   teardownVars, server_acks, last_msg>>
    /\ UNCHANGED <<template, repository_root_path, process_id, setupVars>>

\* init_response = await self.server.send.initialize(initialize_params):
\* the request is sent.
send_initialize ==
    /\ pc = "send_initialize"
    /\ pc' = "await_initialize"
    /\ UNCHANGED <<handlerVars, process, init_response, asserts_passed,
                   initialized_sent, eventVars, yielded, exit_kind,
                   teardownVars, server_acks, last_msg, error>>
    /\ UNCHANGED <<paramVars, setupVars>>

\* ... and its response arrives.
initialize_response ==
    /\ pc = "await_initialize"
    /\ \E caps \in CapabilityDocs : init_response' = caps
    /\ pc' = "assert_textDocumentSync"
    /\ UNCHANGED <<handlerVars, process, asserts_passed,
                   initialized_sent, eventVars, yielded, exit_kind,
                   teardownVars, server_acks, last_msg, error>>
    /\ UNCHANGED <<paramVars, setupVars>>

textDocumentSync_ok(caps) == caps.textDocumentSync = 2

has_completionProvider(caps) == caps.completionProvider.present

\* A comparison of the trigger characters alone.
completionProvider_TriggerCharactersOnly(caps) ==
    caps.completionProvider.triggerCharacters =
        ExpectedCompletionProvider.triggerCharacters

completionProvider_ok(caps) ==
    caps.completionProvider = ExpectedCompletionProvider

\* One capability assertion: it passes and the generator goes on, or it
\* raises AssertionError.
Assertion(at, holds, next) ==
    /\ pc = at
    /\ IF holds
       THEN /\ asserts_passed' = asserts_passed + 1
            /\ pc' = next
            /\ UNCHANGED error
       ELSE /\ Raise("AssertionError")
            /\ UNCHANGED asserts_passed
    /\ UNCHANGED <<handlerVars, process, init_response,
                   initialized_sent, eventVars, yielded, exit_kind,
                   teardownVars, server_acks, last_msg>>
    /\ UNCHANGED <<paramVars, setupVars>>

assert_textDocumentSync ==
    Assertion("assert_textDocumentSync", textDocumentSync_ok(init_response),
              "assert_has_completionProvider")

assert_has_completionProvider ==
    Assertion("assert_has_completionProvider",
              has_completionProvider(init_response),
              "assert_completionProvider")

assert_completionProvider ==
    Assertion("assert_completionProvider", completionProvider_ok(init_response),
              "notify_initialized")

\* self.server.notify.initialized({})
notify_initialized ==
    /\ pc = "notify_initialized"
    /\ initialized_sent' = TRUE
    /\ pc' = "set_completions_available"
    /\ UNCHANGED <<handlerVars, process, init_response, asserts_passed,
                   eventVars, yielded, exit_kind,
                   teardownVars, server_acks, last_msg, error>>
    /\ UNCHANGED <<paramVars, setupVars>>

\* self.completions_available.set()
set_completions_available ==
    /\ pc = "set_completions_available"
    /\ completions_available' = TRUE
    /\ pc' = "set_server_ready"
    /\ UNCHANGED <<handlerVars, process, init_response, asserts_passed,
                   initialized_sent, server_ready,
                   initialize_searcher_command_available, yielded, exit_kind,
                   teardownVars, server_acks, last_msg, error>>
    /\ UNCHANGED <<paramVars, setupVars>>

\* start_server without self.server_ready.set().
set_server_ready_Forgotten ==
    /\ pc = "set_server_ready"
    /\ pc' = "wait_server_ready"
    /\ UNCHANGED <<handlerVars, process, init_response, asserts_passed,
                   initialized_sent, eventVars, yielded, exit_kind,
                   teardownVars, server_acks, last_msg, error>>
    /\ UNCHANGED <<paramVars, setupVars>>

\* self.server_ready.set()
set_server_ready ==
    /\ pc = "set_server_ready"
    /\ server_ready' = TRUE
    /\ pc' = "wait_server_ready"
    /\ UNCHANGED <<handlerVars, process, init_response, asserts_passed,
                   initialized_sent, completions_available,
                   initialize_searcher_command_available, yielded, exit_kind,
                   teardownVars, server_acks, last_msg, error>>
    /\ UNCHANGED <<paramVars, setupVars>>

\* await self.server_ready.wait(): returns once the event is set.
wait_server_ready ==
    /\ pc = "wait_server_ready"
    /\ server_ready
    /\ pc' = "yield"
    /\ UNCHANGED <<handlerVars, process, init_response, asserts_passed,
                   initialized_sent, eventVars, yielded, exit_kind,
                   teardownVars, server_acks, last_msg, error>>
    /\ UNCHANGED <<paramVars, setupVars>>

\* yield self: the caller's scope body starts.
yield_self ==
    /\ pc = "yield"
    /\ yielded' = TRUE
    /\ pc' = "body"
    /\ UNCHANGED <<handlerVars, process, init_response, asserts_passed,
                   initialized_sent, eventVars, exit_kind,
                   teardownVars, server_acks, last_msg, error>>
    /\ UNCHANGED <<paramVars, setupVars>>

---------------------------------------------------------------------------
(* The caller's scope: `async with lsp.start_server(): <body>`.            *)

\* The body ends normally: the generator is resumed after its yield.
body_returns ==
    /\ pc = "body"
    /\ exit_kind' = "normal"
    /\ pc' = "shutdown"
    /\ UNCHANGED <<handlerVars, process, init_response, asserts_passed,
                   initialized_sent, eventVars, yielded,
                   teardownVars, server_acks, last_msg, error>>
    /\ UNCHANGED <<paramVars, setupVars>>

\* The body raises: the exception is thrown into the generator at its yield,
\* which no try statement encloses, so it leaves the generator at once.
body_raises ==
    /\ pc = "body"
    /\ exit_kind' = "error"
    /\ Raise("BodyError")
    /\ UNCHANGED <<handlerVars, process, init_response, asserts_passed,
                   initialized_sent, eventVars, yielded,
                   teardownVars, server_acks, last_msg>>
    /\ UNCHANGED <<paramVars, setupVars>>

\* The task running the body is cancelled: CancelledError is thrown into the
\* generator in the same way.
body_cancelled ==
    /\ pc = "body"
    /\ exit_kind' = "cancel"
    /\ Raise("CancelledError")
    /\ UNCHANGED <<handlerVars, process, init_response, asserts_passed,
                   initialized_sent, eventVars, yielded,
                   teardownVars, server_acks, last_msg>>
    /\ UNCHANGED <<paramVars, setupVars>>

---------------------------------------------------------------------------
(* start_server: after the yield                                           *)

\* self.server.shutdown() called without await: the generator goes on at once.
server_shutdown_NotAwaited ==
    /\ pc = "shutdown"
    /\ shutdown_calls' = shutdown_calls + 1
    /\ pc' = "server_stop"
    /\ UNCHANGED <<handlerVars, process, init_response, asserts_passed,
                   initialized_sent, eventVars, yielded, exit_kind,
                   shutdown_done, stop_calls, server_acks, last_msg, error>>
    /\ UNCHANGED <<paramVars, setupVars>>

\* await self.server.shutdown(): the shutdown request is sent.
server_shutdown ==
    /\ pc = "shutdown"
    /\ shutdown_calls' = shutdown_calls + 1
    /\ pc' = "await_shutdown"
    /\ UNCHANGED <<handlerVars, process, init_response, asserts_passed,
                   initialized_sent, eventVars, yielded, exit_kind,
                   shutdown_done, stop_calls, server_acks, last_msg, error>>
    /\ UNCHANGED <<paramVars, setupVars>>

\* ... the server answers it, the exit notification is sent and
\* server.shutdown() returns.
shutdown_response ==
    /\ pc = "await_shutdown"
    /\ server_acks
    /\ shutdown_done' = TRUE
    /\ pc' = "server_stop"
    /\ UNCHANGED <<handlerVars, process, init_response, asserts_passed,
                   initialized_sent, eventVars, yielded, exit_kind,
                   shutdown_calls, stop_calls, server_acks, last_msg, error>>
    /\ UNCHANGED <<paramVars, setupVars>>

\* ... or the server never answers and the request's deadline, where the
\* dispatcher sets one, ends the wait with TimeoutError.
shutdown_timeout ==
    /\ pc = "await_shutdown"
    /\ ~server_acks
    /\ Raise("TimeoutError")
    /\ UNCHANGED <<handlerVars, process, init_response, asserts_passed,
                   initialized_sent, eventVars, yielded, exit_kind,
                   teardownVars, server_acks, last_msg>>
    /\ UNCHANGED <<paramVars, setupVars>>

\* await self.server.stop()
server_stop ==
    /\ pc = "server_stop"
    /\ stop_calls' = stop_calls + 1
    /\ process' = "stopped"
    /\ pc' = "exit_super"
    /\ UNCHANGED <<handlerVars, init_response, asserts_passed,
                   initialized_sent, eventVars, yielded, exit_kind,
                   shutdown_calls, shutdown_done, server_acks, last_msg, error>>
    /\ UNCHANGED <<paramVars, setupVars>>

\* The `async with super().start_server()` block is left; start_server ends.
exit_super ==
    /\ pc = "exit_super"
    /\ pc' = "done"
    /\ UNCHANGED <<handlerVars, process, init_response, asserts_passed,
                   initialized_sent, eventVars, yielded, exit_kind,
                   teardownVars, server_acks, last_msg, error>>
    /\ UNCHANGED <<paramVars, setupVars>>

---------------------------------------------------------------------------
(* Initial states and specifications                                       *)

\* Before start_server is called: no handler, no process, no event set.
ServerInit ==
    /\ pc = "on_request_registerCapability"
    /\ request_handlers = {}
    /\ notification_handlers = {}
    /\ process = "none"
    /\ init_response = NoResponse
    /\ asserts_passed = 0
    /\ initialized_sent = FALSE
    /\ completions_available = FALSE
    /\ server_ready = FALSE
    /\ initialize_searcher_command_available = FALSE
    /\ yielded = FALSE
    /\ exit_kind = "none"
    /\ shutdown_calls = 0
    /\ shutdown_done = FALSE
    /\ stop_calls = 0
    /\ last_msg = NoMsg
    /\ error = "none"

\* No __init__ call has been made.
SetupIdle ==
    /\ ipc = "idle"
    /\ platform_id = "none"
    /\ in_site_packages = FALSE
    /\ node_found = FALSE
    /\ npm_found = FALSE
    /\ dep_index = 0
    /\ found_dir_absent = FALSE
    /\ created_dir = FALSE
    /\ installs_run = 0
    /\ setup_result = "none"
    /\ setup_error = "none"
    /\ failed_check = "none"
    /\ ts_lsp_executable_path = "none"
    /\ session_constructed = FALSE
    /\ install_failed_before = FALSE
    /\ calls = 0

\* The repository roots start_server is run with: an absolute and a relative one.
ServerRoots == {<<Sep, "a">>, <<"a">>}

Init ==
    /\ template = GoodTemplate
    /\ repository_root_path \in ServerRoots
    /\ process_id \in ProcessIds
    /\ params_result = NoResult
    /\ ServerInit
    /\ server_acks \in BOOLEAN
    /\ SetupIdle
    /\ n_deps = 0
    /\ dir_exists = TRUE
    /\ exe_exists = TRUE

\* The steps of the start_server generator itself.
GeneratorStep ==
    \/ on_request_registerCapability
    \/ on_notification_logMessage
    \/ on_request_executeClientCommand
    \/ on_notification_progress
    \/ on_notification_publishDiagnostics
    \/ enter_super
    \/ server_start
    \/ call_get_initialize_params
    \/ send_initialize
    \/ assert_textDocumentSync
    \/ assert_has_completionProvider
    \/ assert_completionProvider
    \/ notify_initialized
    \/ set_completions_available
    \/ set_server_ready
    \/ wait_server_ready
    \/ yield_self
    \/ server_shutdown
    \/ server_stop
    \/ exit_super

\* What the server does.
ServerStep ==
    \/ initialize_response
    \/ shutdown_response
    \/ ServerInitiated

\* What the caller's scope body does.
CallerStep ==
    \/ body_returns
    \/ body_raises
    \/ body_cancelled

Next ==
    \/ GeneratorStep
    \/ ServerStep
    \/ CallerStep
    \/ shutdown_timeout

Spec == Init /\ [][Next]_vars

\* The event loop runs a task that can run, a server that answers does answer,
\* and the scope body ends. A deadline of the shutdown request is not assumed.
LiveSpec ==
    /\ Spec
    /\ WF_vars(GeneratorStep)
    /\ WF_vars(initialize_response)
    /\ WF_vars(shutdown_response)
    /\ WF_vars(CallerStep)

---------------------------------------------------------------------------
(* Properties of start_server (specifications Spec and LiveSpec)           *)

\* start_server has ended, by returning or by an exception.
Ended == pc \in {"done", "raised"}

\* C1: however the caller's scope exits after the session was yielded
\* (normal return, exception in the body, cancellation), start_server has
\* called server.shutdown() and server.stop() exactly once each by the time
\* it ends, and never calls either twice.
C1_ShutdownAndStopExactlyOnce ==
    /\ shutdown_calls <= 1
    /\ stop_calls <= 1
    /\ (yielded /\ Ended) => (shutdown_calls = 1 /\ stop_calls = 1)

\* The capabilities start_server expects of the initialize response.
ExpectedCapabilities(caps) ==
    /\ caps.textDocumentSync = 2
    /\ caps.completionProvider.present
    /\ caps.completionProvider.triggerCharacters = <<".", "\"", "'", "/", "@", "<">>
    /\ caps.completionProvider.resolveProvider = TRUE
    /\ ~caps.completionProvider.extra

\* C2: when the initialize response differs from the expected capabilities,
\* start_server ends with an error, the session is never yielded, and the
\* process server.start() started is terminated, not left running.
C2_HandshakeRejectionStopsProcess ==
    (init_response # NoResponse /\ ~ExpectedCapabilities(init_response) /\ Ended)
        => (pc = "raised" /\ ~yielded /\ process # "running")

\* C3: the `initialized` notification is sent, completions_available or
\* server_ready is set, and the session is yielded (the scope body runs) only
\* after all three capability assertions have been evaluated and have passed
\* on the initialize response.
C3_AssertionsBeforeReadiness ==
    (initialized_sent \/ completions_available \/ server_ready \/ yielded
        \/ pc = "body")
        => (asserts_passed = 3 /\ ExpectedCapabilities(init_response))

C3_Witness ==
    pc = "body" /\ yielded /\ asserts_passed = 3 /\ server_ready
        /\ completions_available /\ initialized_sent

\* C4: if the server never acknowledges the shutdown request sent at scope
\* exit, start_server still reaches server.stop(): once it waits for the
\* shutdown response of such a server, server.stop() is eventually called.
C4_UnacknowledgedShutdownStillStops ==
    (pc = "await_shutdown" /\ ~server_acks) ~> (stop_calls >= 1)

C6_BaselineHandlersRegistered ==
    (process = "running"
        \/ pc \in {"server_start", "send_initialize", "await_initialize"})
        => /\ {"client/registerCapability", "workspace/executeClientCommand"}
                \subseteq request_handlers
           /\ {"window/logMessage", "$/progress", "textDocument/publishDiagnostics"}
                \subseteq notification_handlers

C6_Witness ==
    /\ process = "running"
    /\ pc = "await_initialize"
    /\ last_msg.method = "textDocument/publishDiagnostics"
    /\ Cardinality(request_handlers \cup notification_handlers) = 5

\* C9: server_ready is already set whenever start_server waits on it, so the
\* wait returns without any message from the server; and
\* initialize_searcher_command_available changes only when
\* register_capability_handler handles a client/registerCapability request
\* one of whose registrations has the method workspace/executeCommand, a step
\* that changes neither completions_available nor server_ready nor the
\* generator's position. (The witness is the scope body running with
\* initialize_searcher_command_available unset and no server message handled.)
C9_ReadinessGateNeverSuspends ==
    /\ [](pc = "wait_server_ready" => (server_ready /\ ENABLED wait_server_ready))
    /\ [][initialize_searcher_command_available'
              # initialize_searcher_command_available
            => /\ initialize_searcher_command_available'
               /\ last_msg'.method = "client/registerCapability"
               /\ last_msg'.params.has_registrations
               /\ \E i \in 1..Len(last_msg'.params.registrations) :
                     last_msg'.params.registrations[i] = "workspace/executeCommand"
               /\ UNCHANGED <<pc, completions_available, server_ready>>]_vars

C9_Witness ==
    /\ pc = "body"
    /\ ~initialize_searcher_command_available
    /\ last_msg = NoMsg

---------------------------------------------------------------------------
(* _get_initialize_params on its own (specification SpecParams)            *)

\* Any template content and any root path within the bounds.
InitParams ==
    /\ template \in Templates
    /\ repository_root_path \in Paths
    /\ process_id \in ProcessIds
    /\ params_result = NoResult
    /\ ServerInit
    /\ server_acks = TRUE
    /\ SetupIdle
    /\ n_deps = 0
    /\ dir_exists = TRUE
    /\ exe_exists = TRUE

\* One call: self._get_initialize_params(self.repository_root_path).
GetInitializeParams ==
    /\ params_result.status = "none"
    /\ params_result' =
          get_initialize_params(template, repository_root_path, process_id)
    /\ UNCHANGED <<template, repository_root_path, process_id>>
    /\ UNCHANGED <<serverVars, setupVars>>

NextParams == GetInitializeParams

SpecParams == InitParams /\ [][NextParams]_vars

\* The template carries exactly the four placeholders.
CarriesPlaceholders(tmpl) ==
    /\ tmpl.rootPath = <<"$rootPath">>
    /\ tmpl.rootUri = <<"$rootUri">>
    /\ tmpl.workspaceFolders_uri = <<"$uri">>
    /\ tmpl.workspaceFolders_name = <<"$name">>

\* The returned parameters are the template with the four fields substituted
\* and the documentation key removed.
Substituted(res) ==
    /\ res.status = "returned"
    /\ res.d.processId = process_id
    /\ res.d.rootPath = repository_root_path
    /\ res.d.rootUri = as_uri(repository_root_path)
    /\ res.d.workspaceFolders_uri = res.d.rootUri
    /\ res.d.workspaceFolders_name = basename(repository_root_path)
    /\ ~res.d.has_description

\* C8 as stated: for every repository root path, a call on a template that
\* carries the placeholders returns the substituted template, and a call on a
\* template that does not carry them fails.
C8_EveryRootPath ==
    params_result.status # "none" =>
        /\ (CarriesPlaceholders(template) /\ template.has_description)
              => Substituted(params_result)
        /\ ~CarriesPlaceholders(template) => params_result.status = "raised"

\* C8, amended: for every absolute repository root path, a call on a template
\* that carries the placeholders returns the substituted template; whatever
\* the path, a call that returns has returned the substituted template of a
\* template that carried the placeholders, and a call on a template that does
\* not carry them fails.
C8_AbsoluteRootPath ==
    params_result.status # "none" =>
        /\ (CarriesPlaceholders(template) /\ template.has_description
              /\ is_absolute(repository_root_path))
              => Substituted(params_result)
        /\ params_result.status = "returned"
              => (Substituted(params_result) /\ CarriesPlaceholders(template))
        /\ ~CarriesPlaceholders(template) => params_result.status = "raised"

C8_Witness ==
    /\ params_result.status = "returned"
    /\ repository_root_path = <<Sep, "a", Sep, "b c">>
    /\ params_result.d.rootUri = <<"file://", "/", "a", "/", "b%20c">>
    /\ params_result.d.workspaceFolders_name = <<"b c">>

---------------------------------------------------------------------------
(* __init__ and setup_runtime_dependencies (specification SpecSetup)       *)

\* valid_platforms of setup_runtime_dependencies, by PlatformId member.
valid_platforms ==
    {"LINUX_x64", "LINUX_arm64", "OSX", "OSX_x64", "OSX_arm64", "WIN_x64",
     "WIN_arm64"}

\* The platforms the model runs on: supported ones and an unsupported one.
DetectedPlatforms == {"LINUX_x64", "OSX_arm64", "WIN_x64", "LINUX_x86"}

\* platform_id.startswith("win")
startswith_win(p) == p \in {"WIN_x64", "WIN_arm64", "WIN_x86"}

\* f"{tsserver_executable} --stdio" with tsserver_ls_dir = /tmp/static/ts-lsp
LaunchCommand ==
    "/tmp/static/ts-lsp/node_modules/.bin/typescript-language-server --stdio"

\* What the steps of a call leave alone unless they say otherwise.
fsVars == <<dir_exists, exe_exists>>
envVars == <<platform_id, in_site_packages, node_found, npm_found>>
installVars == <<dep_index, found_dir_absent, created_dir, installs_run>>
outcomeVars == <<setup_result, setup_error, failed_check, ts_lsp_executable_path>>

\* An exception leaves setup_runtime_dependencies and __init__: every except
\* clause prints and re-raises, and no session object is constructed.
SetupRaise(check, e) ==
    /\ setup_result' = "raised"
    /\ setup_error' = e
    /\ failed_check' = check
    /\ ipc' = "idle"
    /\ UNCHANGED ts_lsp_executable_path

\* The checks that precede the install step.
EarlyChecks == {"platform", "json", "path", "node", "npm"}

\* TypeScriptLanguageServer(config, logger, repository_root_path) is called.
begin_init ==
    /\ ipc = "idle"
    /\ calls < MaxCalls
    /\ calls' = calls + 1
    /\ install_failed_before' =
          (install_failed_before \/ failed_check \in {"chmod", "install"})
    /\ ipc' = "check_platform"
    /\ platform_id' = "none"
    /\ in_site_packages' = FALSE
    /\ node_found' = FALSE
    /\ npm_found' = FALSE
    /\ dep_index' = 0
    /\ found_dir_absent' = FALSE
    /\ created_dir' = FALSE
    /\ installs_run' = 0
    /\ setup_result' = "none"
    /\ setup_error' = "none"
    /\ failed_check' = "none"
    /\ ts_lsp_executable_path' = "none"
    /\ session_constructed' = FALSE
    /\ UNCHANGED <<n_deps, fsVars>>
    /\ UNCHANGED <<paramVars, serverVars>>

\* platform_id = PlatformUtils.get_platform_id(); the platform check.
check_platform ==
    /\ ipc = "check_platform"
    /\ \E p \in DetectedPlatforms :
        /\ platform_id' = p
        /\ IF p \in valid_platforms
           THEN ipc' = "load_json" /\ UNCHANGED outcomeVars
           ELSE SetupRaise("platform", "AssertionError")
    /\ UNCHANGED <<n_deps, in_site_packages, node_found, npm_found, fsVars,
                   installVars, session_constructed, install_failed_before, calls>>
    /\ UNCHANGED <<paramVars, serverVars>>

\* runtime_dependencies.json is read, or reading it fails.
load_json ==
    /\ ipc = "load_json"
    /\ \/ ipc' = "compute_paths" /\ UNCHANGED outcomeVars
       \/ SetupRaise("json", "OSError")
    /\ UNCHANGED <<n_deps, envVars, fsVars, installVars, session_constructed,
                   install_failed_before, calls>>
    /\ UNCHANGED <<paramVars, serverVars>>

\* original_path.find('site-packages/')
compute_paths ==
    /\ ipc = "compute_paths"
    /\ \E found \in BOOLEAN :
        /\ in_site_packages' = found
        /\ IF found
           THEN ipc' = "check_node" /\ UNCHANGED outcomeVars
           ELSE SetupRaise("path", "ValueError")
    /\ UNCHANGED <<n_deps, platform_id, node_found, npm_found, fsVars,
                   installVars, session_constructed, install_failed_before, calls>>
    /\ UNCHANGED <<paramVars, serverVars>>

\* assert shutil.which('node')
check_node ==
    /\ ipc = "check_node"
    /\ \E found \in BOOLEAN :
        /\ node_found' = found
        /\ IF found
           THEN ipc' = "check_npm" /\ UNCHANGED outcomeVars
           ELSE SetupRaise("node", "AssertionError")
    /\ UNCHANGED <<n_deps, platform_id, in_site_packages, npm_found, fsVars,
                   installVars, session_constructed, install_failed_before, calls>>
    /\ UNCHANGED <<paramVars, serverVars>>

\* assert shutil.which('npm')
check_npm ==
    /\ ipc = "check_npm"
    /\ \E found \in BOOLEAN :
        /\ npm_found' = found
        /\ IF found
           THEN ipc' = "check_dir" /\ UNCHANGED outcomeVars
           ELSE SetupRaise("npm", "AssertionError")
    /\ UNCHANGED <<n_deps, platform_id, in_site_packages, node_found, fsVars,
                   installVars, session_constructed, install_failed_before, calls>>
    /\ UNCHANGED <<paramVars, serverVars>>

\* A test of the executable's presence in place of the directory's.
check_dir_ChecksExecutable ==
    /\ ipc = "check_dir"
    /\ IF ~exe_exists
       THEN found_dir_absent' = TRUE /\ ipc' = "makedirs"
       ELSE ipc' = "verify" /\ UNCHANGED found_dir_absent
    /\ UNCHANGED <<n_deps, envVars, fsVars, dep_index, created_dir,
                   installs_run, outcomeVars, session_constructed,
                   install_failed_before, calls>>
    /\ UNCHANGED <<paramVars, serverVars>>

\* if not os.path.exists(tsserver_ls_dir):
check_dir ==
    /\ ipc = "check_dir"
    /\ IF ~dir_exists
       THEN found_dir_absent' = TRUE /\ ipc' = "makedirs"
       ELSE ipc' = "verify" /\ UNCHANGED found_dir_absent
    /\ UNCHANGED <<n_deps, envVars, fsVars, dep_index, created_dir,
                   installs_run, outcomeVars, session_constructed,
                   install_failed_before, calls>>
    /\ UNCHANGED <<paramVars, serverVars>>

\* os.makedirs(tsserver_ls_dir, exist_ok=True, mode=0o777), which may fail.
makedirs ==
    /\ ipc = "makedirs"
    /\ \/ /\ dir_exists' = TRUE
          /\ created_dir' = TRUE
          /\ ipc' = "chmod"
          /\ UNCHANGED outcomeVars
       \/ /\ SetupRaise("makedirs", "OSError")
          /\ UNCHANGED <<dir_exists, created_dir>>
    /\ UNCHANGED <<n_deps, envVars, exe_exists, dep_index, found_dir_absent,
                   installs_run, session_constructed, install_failed_before, calls>>
    /\ UNCHANGED <<paramVars, serverVars>>

\* os.chmod(tsserver_ls_dir, 0o777), which may fail.
chmod ==
    /\ ipc = "chmod"
    /\ \/ ipc' = "install" /\ UNCHANGED outcomeVars
       \/ SetupRaise("chmod", "OSError")
    /\ UNCHANGED <<n_deps, envVars, fsVars, installVars, session_constructed,
                   install_failed_before, calls>>
    /\ UNCHANGED <<paramVars, serverVars>>

\* for dependency in runtime_dependencies: the loop has run through.
install_loop_end ==
    /\ ipc = "install"
    /\ dep_index = n_deps
    /\ ipc' = "verify"
    /\ UNCHANGED <<n_deps, envVars, fsVars, installVars, outcomeVars,
                   session_constructed, install_failed_before, calls>>
    /\ UNCHANGED <<paramVars, serverVars>>

\* Off Windows the loop body first looks up the user and stats the directory;
\* pwd.getpwuid or os.stat raising ends the call before the command is run.
install_debug_raises ==
    /\ ipc = "install"
    /\ dep_index < n_deps
    /\ ~startswith_win(platform_id)
    /\ SetupRaise("install", "KeyError")
    /\ UNCHANGED <<n_deps, envVars, fsVars, installVars, session_constructed,
                   install_failed_before, calls>>
    /\ UNCHANGED <<paramVars, serverVars>>

\* subprocess.run(cmd, shell=True, check=True, cwd=tsserver_ls_dir, ...): the
\* command succeeds, and may have installed the executable, or it fails.
install_command ==
    /\ ipc = "install"
    /\ dep_index < n_deps
    /\ installs_run' = installs_run + 1
    /\ \/ /\ dep_index' = dep_index + 1
          /\ exe_exists' \in {exe_exists, TRUE}
          /\ UNCHANGED <<ipc, outcomeVars>>
       \/ /\ SetupRaise("install", "CalledProcessError")
          /\ UNCHANGED <<dep_index, exe_exists>>
    /\ UNCHANGED <<n_deps, envVars, dir_exists, found_dir_absent, created_dir,
                   session_constructed, install_failed_before, calls>>
    /\ UNCHANGED <<paramVars, serverVars>>

\* A return of the launch command without the existence test.
verify_executable_Unchecked ==
    /\ ipc = "verify"
    /\ setup_result' = "returned"
    /\ ts_lsp_executable_path' = LaunchCommand
    /\ ipc' = "super_init"
    /\ UNCHANGED <<setup_error, failed_check>>
    /\ UNCHANGED <<n_deps, envVars, fsVars, installVars, session_constructed,
                   install_failed_before, calls>>
    /\ UNCHANGED <<paramVars, serverVars>>

\* if not os.path.exists(tsserver_executable): raise FileNotFoundError
\* return f"{tsserver_executable} --stdio"
verify_executable ==
    /\ ipc = "verify"
    /\ IF exe_exists
       THEN /\ setup_result' = "returned"
            /\ ts_lsp_executable_path' = LaunchCommand
            /\ ipc' = "super_init"
            /\ UNCHANGED <<setup_error, failed_check>>
       ELSE SetupRaise("verify", "FileNotFoundError")
    /\ UNCHANGED <<n_deps, envVars, fsVars, installVars, session_constructed,
                   install_failed_before, calls>>
    /\ UNCHANGED <<paramVars, serverVars>>

\* super().__init__(..., ProcessLaunchInfo(cmd=ts_lsp_executable_path, ...), ...)
\* and self.server_ready = asyncio.Event(): the session object exists.
super_init ==
    /\ ipc = "super_init"
    /\ session_constructed' = TRUE
    /\ ipc' = "idle"
    /\ UNCHANGED <<n_deps, envVars, fsVars, installVars, outcomeVars,
                   install_failed_before, calls>>
    /\ UNCHANGED <<paramVars, serverVars>>

\* Any content of /tmp/static: no ts-lsp directory, an empty one, or one
\* that holds the executable; and any number of runtime dependencies.
InitSetup ==
    /\ template = GoodTemplate
    /\ repository_root_path = <<Sep, "a">>
    /\ process_id \in ProcessIds
    /\ params_result = NoResult
    /\ ServerInit
    /\ server_acks = TRUE
    /\ SetupIdle
    /\ n_deps \in 0..MaxDeps
    /\ dir_exists \in BOOLEAN
    /\ exe_exists \in BOOLEAN
    /\ exe_exists => dir_exists

NextSetup ==
    \/ begin_init
    \/ check_platform
    \/ load_json
    \/ compute_paths
    \/ check_node
    \/ check_npm
    \/ check_dir
    \/ makedirs
    \/ chmod
    \/ install_loop_end
    \/ install_debug_raises
    \/ install_command
    \/ verify_executable
    \/ super_init

SpecSetup == InitSetup /\ [][NextSetup]_vars

\* C7: the base constructor is reached, and a session object exists, only
\* after setup_runtime_dependencies has returned the launch command of an
\* executable that exists, on a supported platform, with 'site-packages/' in
\* the module path and node and npm found; a call whose setup raised has
\* constructed no session and holds no launch command.
C7_ExecutableVerifiedBeforeConstruction ==
    /\ (ipc = "super_init" \/ session_constructed)
          => /\ setup_result = "returned"
             /\ exe_exists
             /\ ts_lsp_executable_path =
                   "/tmp/static/ts-lsp/node_modules/.bin/typescript-language-server --stdio"
             /\ platform_id \in valid_platforms
             /\ in_site_packages /\ node_found /\ npm_found
    /\ setup_result = "returned" => exe_exists
    /\ setup_result = "raised"
          => /\ ~session_constructed
             /\ ipc = "idle"
             /\ ts_lsp_executable_path = "none"
             /\ failed_check # "none"

C7_Witness ==
    /\ session_constructed
    /\ setup_result = "returned"
    /\ installs_run = 2
    /\ created_dir

\* C10: a call runs install commands only if it found the ts-lsp directory
\* absent and has created it; once an earlier call has failed in its install
\* step the directory is present, and a call finds it present, runs no
\* install command, returns only if the executable exists and otherwise,
\* having passed the earlier checks, raises FileNotFoundError; a call that
\* fails an earlier check (platform, json, path, node, npm) has created no
\* directory and run no install command.
C10_FailedInstallNeverRetried ==
    /\ installs_run > 0 => (found_dir_absent /\ created_dir /\ dir_exists)
    /\ ipc \in {"chmod", "install"} => (found_dir_absent /\ created_dir)
    /\ install_failed_before
          => /\ dir_exists
             /\ ~found_dir_absent
             /\ installs_run = 0
             /\ setup_result = "returned" => exe_exists
             /\ (setup_result = "raised" /\ failed_check \notin EarlyChecks)
                   => (failed_check = "verify" /\ setup_error = "FileNotFoundError")
    /\ failed_check \in EarlyChecks
          => (~created_dir /\ ~found_dir_absent /\ installs_run = 0)

C10_Witness ==
    /\ install_failed_before
    /\ setup_result = "raised"
    /\ setup_error = "FileNotFoundError"
    /\ installs_run = 0
    /\ ~exe_exists

===========================================================================
